---------------------------- MODULE Spec2Model ----------------------------
(***************************************************************************)
(* Model of src/src/napari_ometiff/_reader.py: the napari reader plugin    *)
(* for pyramidal OME-TIFF files.                                           *)
(*                                                                         *)
(*   napari_get_reader(path)  - the format detector (lines 16-37)          *)
(*   reader_function(path)    - the conversion function (lines 40-126)     *)
(*                                                                         *)
(* A path is a sequence of one-character strings, so that str.endswith is  *)
(* computed character by character.  A call argument is a str or a list    *)
(* of str, as the two docstrings say (lines 21-22, 49-50).                 *)
(*                                                                         *)
(* The file that reader_function opens is the environment: the record      *)
(* `file` holds what tifffile, pyometiff and zarr report for the file at   *)
(* `path` (OME flag, parsed OME-XML metadata, multiscale flag, number of   *)
(* resolution levels).  These libraries are outside the repository; the    *)
(* model takes their answers as inputs and follows the plugin's own code.  *)
(* Every resolution level is an array whose dimensions are the             *)
(* non-singleton axes of the metadata, in dimension order: this is what    *)
(* the code assumes when it indexes the array with positions taken from    *)
(* the filtered axes string (lines 74-83, 113).                            *)
(*                                                                         *)
(* Physical sizes are floats in the code; here a size is an integer count  *)
(* of thousandths (0.001 is 1, 0.25 is 250), and so is a microns-per-pixel *)
(* value (1.0 is 1000).                                                    *)
(***************************************************************************)
EXTENDS Naturals, Sequences, FiniteSets

(***************************************************************************)
(* Bounds of the model.                                                    *)
(***************************************************************************)
\* longest list of paths passed to either function
MaxPaths == 2
\* most resolution levels of a pyramid
MaxLevels == 2

(***************************************************************************)
(* Inputs: paths.                                                          *)
(***************************************************************************)
Stems ==
    { <<>>,
      <<"a">>,
      <<"d", "/", "F", "I", "L", "E">> }

Tails ==
    { <<>>,
      <<".", "o", "m", "e", ".", "t", "i", "f">>,
      <<".", "o", "m", "e", ".", "t", "i", "f", "f">>,
      <<".", "o", "m", "e", "_", "t", "i", "f">>,
      <<".", "o", "m", "e", "_", "t", "i", "f", "f">>,
      <<".", "O", "M", "E", ".", "T", "I", "F">>,
      <<".", "o", "m", "e", ".", "T", "I", "F", "F">>,
      <<".", "t", "i", "f">>,
      <<".", "t", "i", "f", "f">>,
      <<".", "o", "m", "e">>,
      <<"o", "m", "e", ".", "t", "i", "f">>,
      <<".", "o", "m", "e", "-", "t", "i", "f">>,
      <<".", "o", "m", "e", ".", "t", "i", "f", "f", "f">>,
      <<".", "o", "m", "e", ".", "t", "i", "f", ".", "b", "a", "k">>,
      <<".", "o", "m", "e", "_", "t", "i", "f", "f", "/", "x">> }

\* the path strings handed to napari_get_reader
Paths == { s \o t : s \in Stems, t \in Tails }

\* the elements that follow the first one in a list of paths
ExtraPaths ==
    { <<"b", ".", "t", "i", "f">>,
      <<"c", ".", "o", "m", "e", ".", "t", "i", "f">> }

\* the path strings handed to reader_function (each names an existing TIFF)
ReaderPaths ==
    { <<"a", ".", "o", "m", "e", ".", "t", "i", "f">>,
      <<"b", ".", "t", "i", "f">> }

RECURSIVE SeqsUpTo(_, _)
SeqsUpTo(S, n) ==
    IF n = 0 THEN { <<>> }
    ELSE LET shorter == SeqsUpTo(S, n - 1)
         IN  shorter \cup { Append(s, e) : s \in { t \in shorter : Len(t) = n - 1 }, e \in S }

\* an argument: a str (kind "str"; elems[1] is the string) or a list of str
StrArg(p) == [kind |-> "str", elems |-> <<p>>]
ListArg(ps) == [kind |-> "list", elems |-> ps]

StrOf(a) == a.elems[1]

ArgsOver(Firsts, Rest) ==
    { StrArg(p) : p \in Firsts }
    \cup { ListArg(<<p>> \o r) : p \in Firsts, r \in SeqsUpTo(Rest, MaxPaths - 1) }

DetectorArgs == ArgsOver(Paths, ExtraPaths)
ReaderArgs == ArgsOver(ReaderPaths, ReaderPaths)

(***************************************************************************)
(* Inputs: files.                                                          *)
(***************************************************************************)
Letters == {"X", "Y", "Z", "C", "T"}

\* OME DimensionOrder: the five axis letters in some order
DimOrders == { d \in [1..5 -> Letters] : \A i, j \in 1..5 : d[i] = d[j] => i = j }

\* an axis is a singleton (1) or not (3)
AxisSizes == {1, 3}

\* micro sign + m, mm, and a unit the code does not know
Units == {"µm", "mm", "nm"}

\* physical pixel sizes, in thousandths: 0.001 and 0.25
PhysSizes == {1, 250}

TCZYX == <<"T", "C", "Z", "Y", "X">>
XYCZT == <<"X", "Y", "C", "Z", "T">>

\* metadata that varies the axes: every dimension order, every pattern of
\* singleton axes
AxesInfos ==
    [ DimOrder : DimOrders,
      Size : [Letters -> AxisSizes],
      PhysicalSizeXUnit : {"µm"},
      PhysicalSizeYUnit : {"µm"},
      PhysicalSizeX : {250},
      PhysicalSizeY : {250} ]

\* metadata that varies the units and the physical sizes; with three
\* channels, with four, and with a single one
UnitInfos ==
    [ DimOrder : {TCZYX, XYCZT},
      Size : { [a \in Letters |-> IF a \in {"C", "Y", "X"} THEN 3 ELSE 1],
               [a \in Letters |-> IF a = "C" THEN 4 ELSE IF a \in {"Y", "X"} THEN 3 ELSE 1],
               [a \in Letters |-> IF a \in {"Y", "X"} THEN 3 ELSE 1] },
      PhysicalSizeXUnit : Units,
      PhysicalSizeYUnit : Units,
      PhysicalSizeX : PhysSizes,
      PhysicalSizeY : PhysSizes ]

\* what the zarr store of a file reports: one level (not multiscale), or
\* 2..MaxLevels levels
Stores ==
    { [is_multiscales |-> FALSE, n_levels |-> 1] }
    \cup { [is_multiscales |-> TRUE, n_levels |-> n] : n \in 2..MaxLevels }

Files ==
    { [is_ome |-> TRUE, info |-> i, store |-> s] :
        i \in AxesInfos,
        s \in { [is_multiscales |-> FALSE, n_levels |-> 1],
                [is_multiscales |-> TRUE, n_levels |-> 2] } }
    \cup { [is_ome |-> o, info |-> i, store |-> s] :
             o \in BOOLEAN, i \in UnitInfos, s \in Stores }

(***************************************************************************)
(* State.                                                                  *)
(***************************************************************************)
VARIABLES
    pc,                 \* "idle", a line of reader_function, "returned", "raised"
    fn,                 \* the function called
    arg,                \* its argument
    file,               \* environment: the file at `path`
    path,               \* local `path` after normalisation
    reader,             \* what napari_get_reader returned
    info,               \* local `info`
    axes,               \* local `axes`
    axes_order,         \* local `axes_order`
    unit_multiplier_x,  \* 0 while unassigned
    unit_multiplier_y,
    base_mpp_x,         \* thousandths of a micron; 0 while unassigned
    base_mpp_y,
    layers,             \* the list reader_function returned
    err,                \* the exception raised
    opened,             \* history: the paths handed to the file-opening calls
    evaluated           \* history: the checks evaluated so far, in order

vars == <<pc, fn, arg, file, path, reader, info, axes, axes_order,
          unit_multiplier_x, unit_multiplier_y, base_mpp_x, base_mpp_y,
          layers, err, opened, evaluated>>

locals == <<info, axes, axes_order, unit_multiplier_x, unit_multiplier_y,
            base_mpp_x, base_mpp_y>>

NoFile == [absent |-> TRUE]
NoInfo == [unassigned |-> TRUE]
NoArg == [kind |-> "none", elems |-> <<>>]
NoError == [type |-> "none", msg |-> ""]

Init ==
    /\ pc = "idle"
    /\ fn = "none"
    /\ arg = NoArg
    /\ file = NoFile
    /\ path = <<>>
    /\ reader = "unassigned"
    /\ info = NoInfo
    /\ axes = <<>>
    /\ axes_order = NoInfo
    /\ unit_multiplier_x = 0
    /\ unit_multiplier_y = 0
    /\ base_mpp_x = 0
    /\ base_mpp_y = 0
    /\ layers = <<>>
    /\ err = NoError
    /\ opened = <<>>
    /\ evaluated = <<>>

(***************************************************************************)
(* napari_get_reader (lines 16-37).                                        *)
(***************************************************************************)
\* the suffixes of lines 33-34
Suffixes ==
    << <<".", "o", "m", "e", ".", "t", "i", "f">>,
       <<".", "o", "m", "e", ".", "t", "i", "f", "f">>,
       <<".", "o", "m", "e", "_", "t", "i", "f">>,
       <<".", "o", "m", "e", "_", "t", "i", "f", "f">> >>

\* mutant: the suffix is searched anywhere in the string
endswith_in(s, suffix) ==
    \E k \in 0..Len(s) :
        /\ k + Len(suffix) <= Len(s)
        /\ SubSeq(s, k + 1, k + Len(suffix)) = suffix

\* str.endswith: the last Len(suffix) characters of s are suffix
endswith(s, suffix) ==
    /\ Len(s) >= Len(suffix)
    /\ SubSeq(s, Len(s) - Len(suffix) + 1, Len(s)) = suffix

\* lines 30-31: a list is replaced by its first element, a str is kept
detector_path(a) ==
    IF a.kind = "list" THEN a.elems[1] ELSE StrOf(a)

napari_get_reader ==
    /\ pc = "idle"
    /\ \E a \in DetectorArgs :
        LET p == detector_path(a) IN
        /\ fn' = "napari_get_reader"
        /\ arg' = a
        /\ path' = p
        /\ reader' = IF \E i \in 1..Len(Suffixes) : endswith(p, Suffixes[i])
                     THEN "reader_function"
                     ELSE "None"
    /\ pc' = "returned"
    /\ UNCHANGED <<file, layers, err, opened, evaluated>>
    /\ UNCHANGED locals

(***************************************************************************)
(* reader_function (lines 40-126), one action per block of statements.     *)
(***************************************************************************)
Raise(type, msg) ==
    /\ pc' = "raised"
    /\ err' = [type |-> type, msg |-> msg]

\* mutant: a sequence is normalised to its last element
reader_path_last(a) ==
    IF a.kind = "str" THEN StrOf(a) ELSE a.elems[Len(a.elems)]

\* line 62: a str is kept, anything else is replaced by its first element
reader_path(a) ==
    IF a.kind = "str" THEN StrOf(a) ELSE a.elems[1]

\* mutant: the OME flag is not tested
R_Open_unchecked ==
    /\ pc = "idle"
    /\ \E a \in ReaderArgs, f \in Files :
        /\ fn' = "reader_function"
        /\ arg' = a
        /\ path' = reader_path(a)
        /\ file' = f
        /\ opened' = <<reader_path(a)>>
        /\ evaluated' = <<"is_ome">>
        /\ pc' = "l68"
        /\ err' = err
    /\ UNCHANGED <<reader, layers>>
    /\ UNCHANGED locals

\* lines 62-66: normalise the argument, open the TIFF, test its OME flag
R_Open ==
    /\ pc = "idle"
    /\ \E a \in ReaderArgs, f \in Files :
        /\ fn' = "reader_function"
        /\ arg' = a
        /\ path' = reader_path(a)
        /\ file' = f
        /\ opened' = <<reader_path(a)>>
        /\ evaluated' = <<"is_ome">>
        /\ IF ~f.is_ome
           THEN Raise("RuntimeError", "only OME TIFF files are accepted.")
           ELSE pc' = "l68" /\ err' = err
    /\ UNCHANGED <<reader, layers>>
    /\ UNCHANGED locals

\* str.lower on an axis letter (line 76)
lower(a) ==
    CASE a = "X" -> "x"
      [] a = "Y" -> "y"
      [] a = "Z" -> "z"
      [] a = "C" -> "c"
      [] a = "T" -> "t"
      [] OTHER -> a

\* lines 74-76: the letters of DimOrder whose size exceeds 1, lower-cased
axes_of(i) ==
    LET NotSingleton(a) == i.Size[a] > 1
        kept == SelectSeq(i.DimOrder, NotSingleton)
    IN  [k \in 1..Len(kept) |-> lower(kept[k])]

contains(s, e) == \E k \in 1..Len(s) : s[k] = e

\* list.index: the zero-based position of the first occurrence
index(s, e) ==
    (CHOOSE k \in 1..Len(s) : s[k] = e /\ \A j \in 1..(k - 1) : s[j] # e) - 1

\* the message of the ValueError that list.index raises for the first
\* missing letter, in the order the dictionary display evaluates (80-82)
index_error(ax) ==
    IF ~contains(ax, "c") THEN "'c' is not in list"
    ELSE IF ~contains(ax, "y") THEN "'y' is not in list"
    ELSE "'x' is not in list"

\* lines 68-83: parse the metadata, filter the axes, look up c, y and x
R_Axes ==
    /\ pc = "l68"
    /\ opened' = Append(opened, path)
    /\ info' = file.info
    /\ LET ax == axes_of(file.info) IN
        /\ axes' = ax
        /\ evaluated' = Append(evaluated, "axes")
        /\ IF contains(ax, "c") /\ contains(ax, "y") /\ contains(ax, "x")
           THEN /\ axes_order' = [c |-> index(ax, "c"),
                                  y |-> index(ax, "y"),
                                  x |-> index(ax, "x")]
                /\ pc' = "l85"
                /\ err' = err
           ELSE /\ axes_order' = axes_order
                /\ Raise("ValueError", index_error(ax))
    /\ UNCHANGED <<fn, arg, file, path, reader, layers>>
    /\ UNCHANGED <<unit_multiplier_x, unit_multiplier_y, base_mpp_x, base_mpp_y>>

\* mutant: a single-resolution store is let through
R_Zarr_unchecked ==
    /\ pc = "l85"
    /\ opened' = Append(opened, path)
    /\ evaluated' = Append(evaluated, "is_multiscales")
    /\ pc' = "l89"
    /\ err' = err
    /\ UNCHANGED <<fn, arg, file, path, reader, layers>>
    /\ UNCHANGED locals

\* mutant: the test of the multiscale flag is inverted
R_Zarr_inverted ==
    /\ pc = "l85"
    /\ opened' = Append(opened, path)
    /\ evaluated' = Append(evaluated, "is_multiscales")
    /\ IF file.store.is_multiscales
       THEN Raise("RuntimeError", "only pyramidal images are accepted.")
       ELSE pc' = "l89" /\ err' = err
    /\ UNCHANGED <<fn, arg, file, path, reader, layers>>
    /\ UNCHANGED locals

\* lines 85-87: open the file again as a zarr store, test its multiscale flag
R_Zarr ==
    /\ pc = "l85"
    /\ opened' = Append(opened, path)
    /\ evaluated' = Append(evaluated, "is_multiscales")
    /\ IF ~file.store.is_multiscales
       THEN Raise("RuntimeError", "only pyramidal images are accepted.")
       ELSE pc' = "l89" /\ err' = err
    /\ UNCHANGED <<fn, arg, file, path, reader, layers>>
    /\ UNCHANGED locals

\* lines 89-95: the multiplier of the X unit; an unknown unit raises
R_UnitX ==
    /\ pc = "l89"
    /\ evaluated' = Append(evaluated, "unit_x")
    /\ IF info.PhysicalSizeXUnit = "µm"
       THEN unit_multiplier_x' = 1 /\ pc' = "l97" /\ err' = err
       ELSE IF info.PhysicalSizeXUnit = "mm"
       THEN unit_multiplier_x' = 1000 /\ pc' = "l97" /\ err' = err
       ELSE /\ unit_multiplier_x' = 1
            /\ Raise("RuntimeWarning", "unknown unit for resolution (X)")
    /\ UNCHANGED <<fn, arg, file, path, reader, layers, opened>>
    /\ UNCHANGED <<info, axes, axes_order, unit_multiplier_y, base_mpp_x, base_mpp_y>>

\* mutant: the Y multiplier is resolved from the X unit
R_UnitY_fromX ==
    /\ pc = "l97"
    /\ evaluated' = Append(evaluated, "unit_y")
    /\ IF info.PhysicalSizeXUnit = "µm"
       THEN unit_multiplier_y' = 1 /\ pc' = "l105" /\ err' = err
       ELSE IF info.PhysicalSizeXUnit = "mm"
       THEN unit_multiplier_y' = 1000 /\ pc' = "l105" /\ err' = err
       ELSE /\ unit_multiplier_y' = 1
            /\ Raise("RuntimeWarning", "unknown unit for resolution (Y)")
    /\ UNCHANGED <<fn, arg, file, path, reader, layers, opened>>
    /\ UNCHANGED <<info, axes, axes_order, unit_multiplier_x, base_mpp_x, base_mpp_y>>

\* lines 97-103: the multiplier of the Y unit; an unknown unit raises
R_UnitY ==
    /\ pc = "l97"
    /\ evaluated' = Append(evaluated, "unit_y")
    /\ IF info.PhysicalSizeYUnit = "µm"
       THEN unit_multiplier_y' = 1 /\ pc' = "l105" /\ err' = err
       ELSE IF info.PhysicalSizeYUnit = "mm"
       THEN unit_multiplier_y' = 1000 /\ pc' = "l105" /\ err' = err
       ELSE /\ unit_multiplier_y' = 1
            /\ Raise("RuntimeWarning", "unknown unit for resolution (Y)")
    /\ UNCHANGED <<fn, arg, file, path, reader, layers, opened>>
    /\ UNCHANGED <<info, axes, axes_order, unit_multiplier_x, base_mpp_x, base_mpp_y>>

\* list.insert(i, x): x goes before position i (zero-based), or at the end
insert(s, i, x) ==
    LET k == IF i > Len(s) THEN Len(s) ELSE i
    IN  SubSeq(s, 1, k) \o <<x>> \o SubSeq(s, k + 1, Len(s))

RECURSIVE insert_all(_, _, _)
insert_all(order, source, destination) ==
    IF source = <<>> THEN order
    ELSE insert_all(insert(order, Head(destination), Head(source)),
                    Tail(source), Tail(destination))

\* moveaxis (line 112): the axes at the zero-based positions `source` move to
\* the positions `destination` (given in ascending order, as on line 113);
\* the other axes keep their relative order
moveaxis(a, source, destination) ==
    LET ndim == Len(a.axes)
        Stays(n) == \A k \in 1..Len(source) : source[k] # n
        rest == SelectSeq([n \in 1..ndim |-> n - 1], Stays)
        order == insert_all(rest, source, destination)
    IN  [a EXCEPT !.axes = [k \in 1..ndim |-> a.axes[order[k] + 1]]]

\* z[i] (line 113): the array of resolution level i, its dimensions named
from_zarr(i) == [level |-> i, axes |-> axes]

\* mutant: the axes are moved in the order c, y, x
pyramid_cyx ==
    [k \in 1..file.store.n_levels |->
        moveaxis(from_zarr(k - 1),
                 <<axes_order.c, axes_order.y, axes_order.x>>,
                 <<0, 1, 2>>)]

\* lines 108-116: one array per resolution level, y, x, c moved to the front
pyramid ==
    [k \in 1..file.store.n_levels |->
        moveaxis(from_zarr(k - 1),
                 <<axes_order.y, axes_order.x, axes_order.c>>,
                 <<0, 1, 2>>)]

\* mutant: the rgb flag follows the channel count
metadata_by_channels ==
    [rgb |-> (info.Size["C"] = 3), contrast_limits |-> <<0, 255>>, multiscale |-> TRUE]

\* lines 117-122
metadata ==
    [rgb |-> TRUE, contrast_limits |-> <<0, 255>>, multiscale |-> TRUE]

\* line 124
layer_type == "image"

\* lines 105-126: microns per pixel, the pyramid, the returned list
R_Pyramid ==
    /\ pc = "l105"
    /\ base_mpp_x' = unit_multiplier_x * info.PhysicalSizeX
    /\ base_mpp_y' = unit_multiplier_y * info.PhysicalSizeY
    /\ evaluated' = Append(evaluated, "pyramid")
    /\ layers' = << [data |-> pyramid, meta |-> metadata, layer_type |-> layer_type] >>
    /\ pc' = "returned"
    /\ UNCHANGED <<fn, arg, file, path, reader, err, opened>>
    /\ UNCHANGED <<info, axes, axes_order, unit_multiplier_x, unit_multiplier_y>>

Next ==
    \/ napari_get_reader
    \/ R_Open
    \/ R_Axes
    \/ R_Zarr
    \/ R_UnitX
    \/ R_UnitY
    \/ R_Pyramid

Spec == Init /\ [][Next]_vars

(***************************************************************************)
(* Vocabulary of the properties.                                           *)
(***************************************************************************)
Finished == pc \in {"returned", "raised"}

DetectorCalled == fn = "napari_get_reader" /\ pc = "returned"

ReaderCalled == fn = "reader_function"

\* the four recognised forms, as the documentation lists them
RecognisedSuffixes ==
    { <<".", "o", "m", "e", ".", "t", "i", "f">>,
      <<".", "o", "m", "e", ".", "t", "i", "f", "f">>,
      <<".", "o", "m", "e", "_", "t", "i", "f">>,
      <<".", "o", "m", "e", "_", "t", "i", "f", "f">> }

\* P is some prefix followed by a recognised suffix, character for character
Recognised(P) ==
    \E n \in 0..Len(P) : \E suffix \in RecognisedSuffixes :
        P = SubSeq(P, 1, n) \o suffix

\* C, Y and X are not singletons, so the filtered axes hold c, y and x
HasCYX(i) == i.Size["C"] > 1 /\ i.Size["Y"] > 1 /\ i.Size["X"] > 1

KnownUnit(u) == u \in {"µm", "mm"}

NotOmeFormat == [type |-> "RuntimeError", msg |-> "only OME TIFF files are accepted."]

NotPyramidal == [type |-> "RuntimeError", msg |-> "only pyramidal images are accepted."]

(***************************************************************************)
(* C1                                                                      *)
(***************************************************************************)
\* C1: for a path string P, napari_get_reader returns reader_function if and
\* only if P ends, case-sensitively, with .ome.tif, .ome.tiff, .ome_tif or
\* .ome_tiff; for every other string it returns None.
C1_DetectorRecognisesSuffix ==
    (DetectorCalled /\ arg.kind = "str") =>
        /\ reader \in {"reader_function", "None"}
        /\ reader = "reader_function" <=> Recognised(StrOf(arg))
        /\ ~Recognised(StrOf(arg)) => reader = "None"

\* the upper-case name of the documentation is handed in and is not recognised
C1_Witness ==
    /\ DetectorCalled
    /\ arg = StrArg(<<"d", "/", "F", "I", "L", "E", ".", "O", "M", "E", ".", "T", "I", "F">>)
    /\ reader = "None"

(***************************************************************************)
(* C2                                                                      *)
(***************************************************************************)
\* C2: given a list of one or more paths, both functions work on the first
\* element only: the local path is the first element, every file-opening
\* call is handed the first element, the detector's answer is the one for
\* the first element, and by itself a longer list raises nothing (the
\* detector returns; the conversion fails only on what the file at the
\* first element holds).
C2_OnlyFirstElementUsed ==
    (arg.kind = "list" /\ pc # "idle") =>
        /\ path = arg.elems[1]
        /\ \A k \in 1..Len(opened) : opened[k] = arg.elems[1]
        /\ fn = "napari_get_reader" =>
              /\ pc = "returned"
              /\ reader = "reader_function" <=> Recognised(arg.elems[1])
        /\ (ReaderCalled /\ Finished) =>
              /\ Len(opened) >= 1
              /\ pc = "returned" <=>
                    /\ file.is_ome
                    /\ HasCYX(file.info)
                    /\ file.store.is_multiscales
                    /\ KnownUnit(file.info.PhysicalSizeXUnit)
                    /\ KnownUnit(file.info.PhysicalSizeYUnit)

\* a list whose first element is a TIFF name and whose second is an OME-TIFF
\* name has been converted
C2_Witness ==
    /\ ReaderCalled
    /\ pc = "returned"
    /\ arg = ListArg(<< <<"b", ".", "t", "i", "f">>,
                        <<"a", ".", "o", "m", "e", ".", "t", "i", "f">> >>)
    /\ Len(opened) = 3

(***************************************************************************)
(* C3                                                                      *)
(***************************************************************************)
\* C3: when the OME flag of the opened TIFF is false, reader_function raises
\* "only OME TIFF files are accepted." and returns nothing, whatever the
\* metadata, units and pyramid structure of the file: nothing but the flag
\* has been read (metadata not parsed, zarr store not opened, no local
\* assigned).
C3_NotOmeRaisesFirst ==
    (ReaderCalled /\ ~file.is_ome) =>
        /\ pc = "raised"
        /\ err = NotOmeFormat
        /\ layers = <<>>
        /\ evaluated = <<"is_ome">>
        /\ opened = <<path>>
        /\ info = NoInfo
        /\ axes = <<>>
        /\ axes_order = NoInfo
        /\ unit_multiplier_x = 0 /\ unit_multiplier_y = 0

\* a non-OME file that is also single-resolution, with an unknown unit and
\* a single channel
C3_Witness ==
    /\ ReaderCalled
    /\ pc = "raised"
    /\ ~file.is_ome
    /\ ~file.store.is_multiscales
    /\ file.info.PhysicalSizeXUnit = "nm"
    /\ ~HasCYX(file.info)
    /\ err = NotOmeFormat

(***************************************************************************)
(* C4                                                                      *)
(***************************************************************************)
\* C4 as stated: every OME-TIFF with one resolution level fails with "only
\* pyramidal images are accepted.", regardless of its axis sizes.
C4_Original ==
    (ReaderCalled /\ Finished /\ file.is_ome /\ ~file.store.is_multiscales) =>
        /\ pc = "raised"
        /\ err = NotPyramidal

\* C4 amended: an OME-TIFF with one resolution level whose axes C, Y and X
\* are not singletons fails with "only pyramidal images are accepted." and
\* returns nothing, regardless of its dimension order, the sizes of its
\* other axes and its units.
C4_NotPyramidalRaises ==
    (ReaderCalled /\ Finished /\ file.is_ome /\ ~file.store.is_multiscales
        /\ HasCYX(file.info)) =>
        /\ pc = "raised"
        /\ err = NotPyramidal
        /\ layers = <<>>

\* a single-resolution OME-TIFF with an unknown unit has been refused as
\* not pyramidal
C4_Witness ==
    /\ ReaderCalled
    /\ pc = "raised"
    /\ file.is_ome
    /\ ~file.store.is_multiscales
    /\ HasCYX(file.info)
    /\ file.info.DimOrder = XYCZT
    /\ file.info.PhysicalSizeYUnit = "nm"
    /\ err = NotPyramidal

(***************************************************************************)
(* C5                                                                      *)
(***************************************************************************)
\* C5: with an X or Y unit that is neither µm nor mm, on an otherwise valid
\* pyramidal OME-TIFF, the call is not aborted: the multiplier of that axis
\* is 1.0 and the layer list is returned.
C5_UnknownUnitCompletes ==
    (ReaderCalled /\ Finished /\ file.is_ome /\ HasCYX(file.info)
        /\ file.store.is_multiscales
        /\ (~KnownUnit(file.info.PhysicalSizeXUnit)
            \/ ~KnownUnit(file.info.PhysicalSizeYUnit))) =>
        /\ pc = "returned"
        /\ Len(layers) = 1
        /\ ~KnownUnit(file.info.PhysicalSizeXUnit) => unit_multiplier_x = 1
        /\ ~KnownUnit(file.info.PhysicalSizeYUnit) => unit_multiplier_y = 1

(***************************************************************************)
(* C6                                                                      *)
(***************************************************************************)
\* the non-singleton axes other than c, y, x, lower-cased, in dimension order
OtherAxes(i) ==
    LET Other(a) == a \notin {"C", "Y", "X"} /\ i.Size[a] > 1
        kept == SelectSeq(i.DimOrder, Other)
    IN  [k \in 1..Len(kept) |->
            CASE kept[k] = "Z" -> "z"
              [] kept[k] = "T" -> "t"]

\* C6: whenever C, Y and X are not singletons, every level of the returned
\* pyramid has axis 0 = y, axis 1 = x, axis 2 = c, whatever their positions
\* in the dimension order; the other non-singleton axes follow in their
\* original relative order; there is one level per level of the file.
C6_LevelsAreYXC ==
    (ReaderCalled /\ pc = "returned") =>
        /\ HasCYX(file.info)
        /\ Len(layers[1].data) = file.store.n_levels
        /\ \A k \in 1..Len(layers[1].data) :
              LET level == layers[1].data[k] IN
              /\ level.level = k - 1
              /\ Len(level.axes) >= 3
              /\ level.axes[1] = "y"
              /\ level.axes[2] = "x"
              /\ level.axes[3] = "c"
              /\ SubSeq(level.axes, 4, Len(level.axes)) = OtherAxes(file.info)

\* the example of the documentation: TCZYX with T = Z = 1 gives axes cyx and
\* axes_order c:0, y:1, x:2, and the levels come out as y, x, c
C6_Witness ==
    /\ ReaderCalled
    /\ pc = "returned"
    /\ file.info.DimOrder = TCZYX
    /\ file.info.Size = [a \in Letters |-> IF a \in {"C", "Y", "X"} THEN 3 ELSE 1]
    /\ axes = <<"c", "y", "x">>
    /\ axes_order = [c |-> 0, y |-> 1, x |-> 2]
    /\ layers[1].data[1].axes = <<"y", "x", "c">>

(***************************************************************************)
(* C7                                                                      *)
(***************************************************************************)
\* C7: every successful call of reader_function returns a list of exactly
\* one tuple whose metadata is {rgb: true, contrast_limits: (0, 255),
\* multiscale: true} and whose layer type is "image", whatever the channel
\* count, physical sizes and units of the file; nothing is returned
\* otherwise.
C7_FixedMetadata ==
    ReaderCalled =>
        /\ pc = "returned" =>
              /\ Len(layers) = 1
              /\ DOMAIN layers[1] = {"data", "meta", "layer_type"}
              /\ layers[1].meta = [rgb |-> TRUE,
                                   contrast_limits |-> <<0, 255>>,
                                   multiscale |-> TRUE]
              /\ layers[1].layer_type = "image"
        /\ pc # "returned" => layers = <<>>

\* a four-channel file in millimetres has been returned
C7_Witness ==
    /\ ReaderCalled
    /\ pc = "returned"
    /\ file.info.Size["C"] = 4
    /\ file.info.PhysicalSizeXUnit = "mm"
    /\ file.info.PhysicalSizeX = 1
    /\ Len(layers) = 1

(***************************************************************************)
(* C8                                                                      *)
(***************************************************************************)
\* C8: when the filtered axes lack one of c, y, x (a single-channel image,
\* say), reader_function fails with an explicit MetadataAxisMissing error,
\* not with the exception of the index lookup.
C8_AxisMissingIsExplicit ==
    (ReaderCalled /\ Finished /\ file.is_ome /\ ~HasCYX(file.info)) =>
        /\ pc = "raised"
        /\ err.type = "MetadataAxisMissing"

(***************************************************************************)
(* C9                                                                      *)
(***************************************************************************)
\* the multiplier the documentation gives a unit
Multiplier(u) == IF u = "mm" THEN 1000 ELSE 1

\* C9: the multiplier of X comes from the X unit alone and that of Y from
\* the Y unit alone (µm gives 1.0, mm gives 1000.0), and the microns per
\* pixel of an axis is its physical size times its own multiplier (mm and
\* 0.001 give 1.0).
C9_UnitsResolvedIndependently ==
    ReaderCalled =>
        /\ unit_multiplier_x # 0 =>
              unit_multiplier_x = Multiplier(file.info.PhysicalSizeXUnit)
        /\ unit_multiplier_y # 0 =>
              unit_multiplier_y = Multiplier(file.info.PhysicalSizeYUnit)
        /\ pc \in {"l97", "l105", "returned"} =>
              /\ KnownUnit(file.info.PhysicalSizeXUnit)
              /\ unit_multiplier_x # 0
        /\ pc \in {"l105", "returned"} =>
              /\ KnownUnit(file.info.PhysicalSizeYUnit)
              /\ unit_multiplier_y # 0
        /\ pc = "returned" =>
              /\ base_mpp_x = Multiplier(file.info.PhysicalSizeXUnit) * file.info.PhysicalSizeX
              /\ base_mpp_y = Multiplier(file.info.PhysicalSizeYUnit) * file.info.PhysicalSizeY
        /\ pc # "returned" => base_mpp_x = 0 /\ base_mpp_y = 0

\* X in mm with size 0.001 gives 1.0 while Y in µm with size 0.25 gives 0.25
C9_Witness ==
    /\ ReaderCalled
    /\ pc = "returned"
    /\ file.info.PhysicalSizeXUnit = "mm"
    /\ file.info.PhysicalSizeX = 1
    /\ file.info.PhysicalSizeYUnit = "µm"
    /\ file.info.PhysicalSizeY = 250
    /\ base_mpp_x = 1000
    /\ base_mpp_y = 250

(***************************************************************************)
(* C10                                                                     *)
(***************************************************************************)
CheckOrder == <<"is_ome", "axes", "is_multiscales", "unit_x", "unit_y", "pyramid">>

\* what each check asks of the file
Passes(check, f) ==
    CASE check = "is_ome" -> f.is_ome
      [] check = "axes" -> HasCYX(f.info)
      [] check = "is_multiscales" -> f.store.is_multiscales
      [] check = "unit_x" -> KnownUnit(f.info.PhysicalSizeXUnit)
      [] check = "unit_y" -> KnownUnit(f.info.PhysicalSizeYUnit)
      [] check = "pyramid" -> TRUE

\* the kind of error each failing check raises
ErrorOf(check) ==
    CASE check = "is_ome" -> {NotOmeFormat}
      [] check = "axes" -> { [type |-> "ValueError", msg |-> m] :
                               m \in {"'c' is not in list", "'y' is not in list",
                                      "'x' is not in list"} }
      [] check = "is_multiscales" -> {NotPyramidal}
      [] check = "unit_x" -> { [type |-> "RuntimeWarning",
                                msg |-> "unknown unit for resolution (X)"] }
      [] check = "unit_y" -> { [type |-> "RuntimeWarning",
                                msg |-> "unknown unit for resolution (Y)"] }
      [] check = "pyramid" -> {}

\* C10: reader_function evaluates its checks in one order - OME flag, c/y/x
\* in the filtered axes, multiscale flag, X unit, Y unit, pyramid - each at
\* most once; the first check that fails decides the error and no later
\* check is evaluated; a result is returned only when every check has passed.
C10_FirstFailureDecides ==
    ReaderCalled =>
        /\ Len(evaluated) <= Len(CheckOrder)
        /\ evaluated = SubSeq(CheckOrder, 1, Len(evaluated))
        /\ \A k \in 1..(Len(evaluated) - 1) : Passes(evaluated[k], file)
        /\ pc = "raised" =>
              /\ ~Passes(evaluated[Len(evaluated)], file)
              /\ err \in ErrorOf(evaluated[Len(evaluated)])
              /\ layers = <<>>
        /\ pc # "raised" =>
              /\ Passes(evaluated[Len(evaluated)], file)
              /\ err = NoError
        /\ pc = "returned" <=> evaluated = CheckOrder

\* a file that is single-resolution and has an unknown unit reports the
\* pyramidal error, and its units have not been looked at
C10_Witness ==
    /\ ReaderCalled
    /\ pc = "raised"
    /\ file.is_ome
    /\ HasCYX(file.info)
    /\ ~file.store.is_multiscales
    /\ file.info.PhysicalSizeXUnit = "nm"
    /\ err = NotPyramidal
    /\ evaluated = <<"is_ome", "axes", "is_multiscales">>
    /\ unit_multiplier_x = 0

=============================================================================
